---- MODULE Spec2Model ----
(***************************************************************************)
(* Model of the Dagger testing module (dagger_testing/main.py), of the     *)
(* FastAPI application it serves (src/hello_world.py) and of the e2e test  *)
(* it delegates to (tests/e2e/test_api_integration.py).                    *)
(*                                                                         *)
(* Text is a sequence of one-character strings.  A container is the lazy   *)
(* description the SDK builds: image, environment, service bindings and    *)
(* the list of execs; each exec keeps the environment and the bindings the *)
(* container had when with_exec was called.  Awaiting .stdout() evaluates  *)
(* the description: the image is pulled, then the execs run in order.      *)
(* What a command does in the outside world (does the image exist, does    *)
(* pip succeed, what does the served application answer) is the variable   *)
(* world, chosen once: identical inputs give identical results.            *)
(***************************************************************************)
EXTENDS Integers, Sequences, FiniteSets, TLC

VARIABLES
  call,          \* the @function invoked and its arguments
  world,         \* the outside world the commands run against
  mpc,           \* position of the invoked function
  version_list,  \* main.py:83
  task,          \* task 0 is the invoked function, task i>0 the i-th gather branch
  completed,     \* indices of the branches in the order they finished
  results,       \* what asyncio.gather handed back (main.py:94)
  output,        \* the returned string, as its lines / the returned stdout
  raised,        \* the exception that left the invoked function, or NoExc
  request,       \* hello_world: the request being served
  response,      \* hello_world: the answer to it
  served         \* hello_world: number of requests served

vars == <<call, world, mpc, version_list, task, completed, results, output,
          raised, request, response, served>>

pipeVars == <<call, world, mpc, version_list, task, completed, results, output, raised>>
httpVars == <<request, response, served>>

----------------------------------------------------------------------------
(* Bounds *)

\* longest versions argument enumerated
MaxLen == 5
\* requests served by one run of the application
MaxReq == 2

----------------------------------------------------------------------------
(* Text *)

Comma == ","
Space == " "
Alphabet == {"x", "y", Comma, Space}

RECURSIVE StringsUpTo(_)
StringsUpTo(n) ==
  IF n = 0 THEN {<<>>}
  ELSE LET shorter == StringsUpTo(n - 1)
       IN  shorter \cup {Append(s, c) : s \in {u \in shorter : Len(u) = n - 1}, c \in Alphabet}

\* index of the first sep in s, 0 when there is none
RECURSIVE Find(_, _, _)
Find(s, sep, i) ==
  IF i > Len(s) THEN 0
  ELSE IF s[i] = sep THEN i
  ELSE Find(s, sep, i + 1)

\* str.split(","): "" gives [""], "a," gives ["a", ""]
RECURSIVE Split(_)
Split(s) ==
  LET i == Find(s, Comma, 1)
  IN  IF i = 0 THEN <<s>>
      ELSE <<SubSeq(s, 1, i - 1)>> \o Split(SubSeq(s, i + 1, Len(s)))

RECURSIVE LStrip(_)
LStrip(s) == IF s # <<>> /\ Head(s) = Space THEN LStrip(Tail(s)) ELSE s

RECURSIVE RStrip(_)
RStrip(s) ==
  IF s # <<>> /\ s[Len(s)] = Space THEN RStrip(SubSeq(s, 1, Len(s) - 1)) ELSE s

\* str.strip()
Strip(s) == RStrip(LStrip(s))

\* main.py:83  [v.strip() for v in versions.split(",")]
ParseVersions(versions) ==
  LET parts == Split(versions)
  IN  [i \in 1..Len(parts) |-> Strip(parts[i])]

----------------------------------------------------------------------------
(* src/hello_world.py: the application and the router that serves it *)

Methods == {"GET", "HEAD", "POST", "PUT", "DELETE", "OPTIONS", "PATCH"}

\* A path is its segments and whether it ends in a slash: "/" has no segment.
Path(segs, slash) == [segs |-> segs, slash |-> slash]
RootPath == Path(<<>>, FALSE)
HealthPath == Path(<<"health">>, FALSE)

RequestSegs ==
  { <<>>, <<"health">>, <<"docs">>, <<"redoc">>, <<"openapi.json">>,
    <<"docs", "oauth2-redirect">>, <<"nonexistent">>, <<"missing">>, <<"health", "live">> }

RequestPaths ==
  {RootPath} \cup {Path(s, b) : s \in RequestSegs \ {<<>>}, b \in BOOLEAN}

\* hello_world.py:11-14
root == [status |-> 200, body |-> [message |-> "Hello, World!"], location |-> RootPath]

\* hello_world.py:17-20
health_check ==
  [status |-> 200, body |-> [status |-> "healthy", service |-> "hello-world"],
   location |-> RootPath]

\* The routes FastAPI(...) registers itself when docs_url, redoc_url and
\* openapi_url are left at their defaults (hello_world.py:8).  They are plain
\* Starlette routes: GET, and HEAD with it.
FrameworkRoutes ==
  << [path |-> Path(<<"openapi.json">>, FALSE), methods |-> {"GET", "HEAD"}, endpoint |-> "openapi"],
     [path |-> Path(<<"docs">>, FALSE), methods |-> {"GET", "HEAD"}, endpoint |-> "swagger_ui_html"],
     [path |-> Path(<<"docs", "oauth2-redirect">>, FALSE), methods |-> {"GET", "HEAD"},
      endpoint |-> "swagger_ui_redirect"],
     [path |-> Path(<<"redoc">>, FALSE), methods |-> {"GET", "HEAD"}, endpoint |-> "redoc_html"] >>

\* @app.get registers an APIRoute for GET alone (hello_world.py:11, 17)
RootRouteWithHead == [path |-> RootPath, methods |-> {"GET", "HEAD"}, endpoint |-> "root"]

RootRoute == [path |-> RootPath, methods |-> {"GET"}, endpoint |-> "root"]
HealthRoute == [path |-> HealthPath, methods |-> {"GET"}, endpoint |-> "health_check"]

\* the application object after the module is imported (hello_world.py:8-20)
app == FrameworkRoutes \o <<RootRoute, HealthRoute>>

Detail(text) == [detail |-> text]

Endpoint(name) ==
  CASE name = "root" -> root
    [] name = "health_check" -> health_check
    [] name = "openapi" ->
         [status |-> 200, body |-> [openapi |-> "3.1.0", title |-> "Hello World API", version |-> "1.0.0"],
          location |-> RootPath]
    [] name = "crash" ->
         [status |-> 500, body |-> [text |-> "Internal Server Error"], location |-> RootPath]
    [] OTHER -> [status |-> 200, body |-> [html |-> name], location |-> RootPath]

\* The router: the first route matching path and method answers; a route
\* matching the path alone answers 405; otherwise a path that matches a
\* route once its trailing slash is added or removed is redirected (never
\* "/" itself); otherwise 404.
Toggle(p) == [p EXCEPT !.slash = ~p.slash]

Handle(routes, method, path) ==
  LET full == {i \in 1..Len(routes) : routes[i].path = path /\ method \in routes[i].methods}
      partial == {i \in 1..Len(routes) : routes[i].path = path}
      first(S) == CHOOSE i \in S : \A j \in S : i <= j
  IN  IF full # {} THEN Endpoint(routes[first(full)].endpoint)
      ELSE IF partial # {}
        THEN [status |-> 405, body |-> Detail("Method Not Allowed"), location |-> RootPath]
      ELSE IF path # RootPath /\ \E i \in 1..Len(routes) : routes[i].path = Toggle(path)
        THEN [status |-> 307, body |-> [text |-> ""], location |-> Toggle(path)]
      ELSE [status |-> 404, body |-> Detail("Not Found"), location |-> RootPath]

\* a body that parses as JSON
IsJson(body) == ~("text" \in DOMAIN body) /\ ~("html" \in DOMAIN body)

----------------------------------------------------------------------------
(* dagger_testing/main.py: containers, services and commands *)

\* the two Python versions for which the world may hold an image
BaseVersions == {<<"x">>, <<"y">>}

\* applications a source directory may hold: the repository's own, one
\* without the /health route, one whose root handler raises
Apps == {"hello_world", "no_health", "crash_root"}

AppRoutes(a) ==
  CASE a = "hello_world" -> app
    [] a = "no_health" -> FrameworkRoutes \o <<RootRoute>>
    [] a = "crash_root" ->
         FrameworkRoutes \o <<[RootRoute EXCEPT !.endpoint = "crash"], HealthRoute>>

\* commands, as [tool, arg]
InstallTest == [tool |-> "uv pip install -e", arg |-> [target |-> ".[test]"]]   \* main.py:65
Install == [tool |-> "uv pip install -e", arg |-> [target |-> "."]]             \* main.py:149
Pytest(path) == [tool |-> "pytest", arg |-> [path |-> path]]                    \* main.py:66
ApkAdd == [tool |-> "apk add", arg |-> [packages |-> {"curl", "jq"}]]           \* main.py:183
Curl(host, path) == [tool |-> "curl -s", arg |-> [host |-> host, port |-> 8000, path |-> path]]
EchoJq(body) == [tool |-> "sh -c echo | jq .", arg |-> [input |-> body]]        \* main.py:199

\* with_exec with its default expect=SUCCESS: the exec keeps the environment
\* and the bindings the container has at this point of the chain
WithExecAny(c, cmd) ==
  [c EXCEPT !.execs = Append(@, [cmd |-> cmd, envv |-> c.envv, binds |-> c.binds, expect |-> "ANY"])]

WithExec(c, cmd) ==
  [c EXCEPT !.execs = Append(@, [cmd |-> cmd, envv |-> c.envv, binds |-> c.binds, expect |-> "SUCCESS"])]

WithEnvVariable(c, name, value) ==
  [c EXCEPT !.envv = {e \in @ : e.name # name} \cup {[name |-> name, value |-> value]}]

WithServiceBinding(c, alias, svc) ==
  [c EXCEPT !.binds = {b \in @ : b.alias # alias} \cup {[alias |-> alias, svc |-> svc]}]

\* main.py:38-47
test_container(python_version) ==
  WithEnvVariable(
    [image |-> [repo |-> "ghcr.io/astral-sh/uv", tag |-> python_version],
     cache |-> "uv", workdir |-> "/app", envv |-> {}, binds |-> {}, execs |-> <<>>],
    "UV_SYSTEM_PYTHON", "1")

\* main.py:63-68
UnitTestContainer(python_version) ==
  WithExec(WithExec(test_container(python_version), InstallTest), Pytest("tests/unit"))

\* main.py:117-122
RunTestContainer(path, python_version) ==
  WithExec(WithExec(test_container(python_version), InstallTest), Pytest(path))

\* main.py:147-152
api_service(python_version) ==
  [ctr |-> WithExec(test_container(python_version), Install), port |-> 8000,
   args |-> "python -m hello_world"]

\* main.py:180-185
TestClientUnbound(python_version) ==
  WithExec([image |-> [repo |-> "alpine", tag |-> <<"latest">>],
            cache |-> "", workdir |-> "/", envv |-> {}, binds |-> {}, execs |-> <<>>],
           ApkAdd)

TestClient(python_version) ==
  WithServiceBinding(
    WithExec([image |-> [repo |-> "alpine", tag |-> <<"latest">>],
              cache |-> "", workdir |-> "/", envv |-> {}, binds |-> {}, execs |-> <<>>],
             ApkAdd),
    "api", api_service(python_version))

\* main.py:188-204: the container awaited k-th, given what the earlier awaits returned
ProbeContainer(k, python_version, vals) ==
  LET test_client == TestClient(python_version)
  IN  CASE k = 1 -> WithExec(test_client, Curl("api", RootPath))
        [] k = 2 -> WithExec(test_client, Curl("api", HealthPath))
        [] k = 3 -> WithExec(test_client, EchoJq(vals[1].data))
        [] k = 4 -> WithExec(test_client, EchoJq(vals[2].data))

\* main.py:246-253
IntegrationContainer(python_version) ==
  WithExec(
    WithExec(
      WithEnvVariable(
        WithServiceBinding(test_container(python_version), "api", api_service(python_version)),
        "API_BASE_URL", "http://api:8000"),
      InstallTest),
    Pytest("tests/e2e"))

----------------------------------------------------------------------------
(* The world the commands run against *)

ImageResolves(w, image) == image.repo = "alpine" \/ image.tag \in w.resolves

\* a bound service comes up when its own container builds and the process listens
ServiceUp(w, svc) ==
  /\ ImageResolves(w, svc.ctr.image)
  /\ w.install = 0
  /\ w.listens

HostOf(url) ==
  CASE url = "http://api:8000" -> "api"
    [] url = "http://localhost:8000" -> "localhost"

\* tests/e2e/test_api_integration.py:12-15
api_url(envv) ==
  IF \E e \in envv : e.name = "API_BASE_URL"
  THEN (CHOOSE e \in envv : e.name = "API_BASE_URL").value
  ELSE "http://localhost:8000"

\* a name resolves inside an exec only through a binding under that alias
Resolves(ex, host) == \E b \in ex.binds : b.alias = host

NoOut == [fmt |-> "none", data |-> [text |-> ""]]

\* tests/e2e/test_api_integration.py:18-22
test_hello_world(w, ex) ==
  LET host == HostOf(api_url(ex.envv))
      r == Handle(AppRoutes(w.app), "GET", RootPath)
      ok == Resolves(ex, host) /\ r.status = 200 /\ r.body = [message |-> "Hello, World!"]
  IN  [exit |-> IF ok THEN 0 ELSE 1, out |-> [fmt |-> "log", data |-> [text |-> "pytest tests/e2e"]],
       host |-> host, connected |-> Resolves(ex, host),
       status |-> IF Resolves(ex, host) THEN r.status ELSE 0]

\* what running one exec gives: exit code, stdout, and for a command that
\* talks to a host: the host, whether it connected and the status received
RunCommand(w, ex) ==
  LET c == ex.cmd
      plain(code, text) ==
        [exit |-> code, out |-> [fmt |-> "log", data |-> [text |-> text]],
         host |-> "", connected |-> FALSE, status |-> 0]
  IN  CASE c.tool = "uv pip install -e" -> plain(w.install, "pip")
        [] c.tool = "apk add" -> plain(w.apk, "apk")
        [] c.tool = "pytest" /\ c.arg.path = "tests/unit" -> plain(w.unit, "pytest tests/unit")
        [] c.tool = "pytest" /\ c.arg.path = "tests/e2e" -> test_hello_world(w, ex)
        [] c.tool = "curl -s" ->
             \* curl -s without -f: exit 0 whatever the status, nonzero when it cannot connect
             LET r == Handle(AppRoutes(w.app), "GET", c.arg.path)
             IN  IF Resolves(ex, c.arg.host)
                 THEN [exit |-> 0, out |-> [fmt |-> "raw", data |-> r.body],
                       host |-> c.arg.host, connected |-> TRUE, status |-> r.status]
                 ELSE [exit |-> 6, out |-> NoOut, host |-> c.arg.host,
                       connected |-> FALSE, status |-> 0]
        [] c.tool = "sh -c echo | jq ." ->
             \* the pipeline's exit is jq's: 0 on JSON, 2 on a parse error
             IF IsJson(c.arg.input) \/ c.arg.input = [text |-> ""]
             THEN [exit |-> 0, out |-> [fmt |-> "pretty", data |-> c.arg.input],
                   host |-> "", connected |-> FALSE, status |-> 0]
             ELSE [exit |-> 2, out |-> NoOut, host |-> "", connected |-> FALSE, status |-> 0]

----------------------------------------------------------------------------
(* Tasks: the invoked function (task 0) and the gather branches *)

NoExc == [kind |-> "none"]
NoRet == <<<<>>, [kind |-> "none"]>>
NoContainer == [image |-> [repo |-> "", tag |-> <<>>], cache |-> "", workdir |-> "",
                envv |-> {}, binds |-> {}, execs |-> <<>>]

\* the @function methods of DaggerTestingExample (main.py:25-253)
ClassAttrs ==
  {"test_container", "unit_test", "unit_test_matrix", "run_test", "api_service",
   "test_api_service", "integration_test"}

\* the attribute test_version looks up on self (main.py:88)
MatrixCallee == "unit_tests"

\* except Exception (main.py:90): every exception the branch can see derives from it
CatchesExecErrorOnly(e) == e.kind = "ExecError"

Catches(e) == e.kind \in {"AttributeError", "ExecError", "QueryError"}

\* main.py:89 and main.py:91: the (version, text) pair a branch returns
PassedResult(version, result) ==
  <<version, [kind |-> "block", version |-> version, status |-> "PASSED", text |-> result]>>

FailedResult(version, e) ==
  <<version, [kind |-> "block", version |-> version, status |-> "FAILED", text |-> e]>>

Line(kind) == [kind |-> kind]

\* main.py:97-101
RECURSIVE ExtendAll(_, _)
ExtendAll(output_lines, rs) ==
  IF rs = <<>> THEN output_lines
  ELSE ExtendAll(output_lines \o <<Head(rs)[2], Line("delimiter"), Line("blank")>>, Tail(rs))

FormatMatrix(rs) == ExtendAll(<<Line("header"), Line("blank")>>, rs)

\* main.py:207-219
ApiReport(vals) ==
  << Line("header"), Line("blank"),
     [kind |-> "root", text |-> vals[3]], Line("blank"),
     [kind |-> "health", text |-> vals[4]], Line("blank"),
     Line("All endpoints responded successfully!") >>

NewTask(fn, python_version) ==
  [fn |-> fn, version |-> python_version, pc |-> "ready", ctr |-> NoContainer, ip |-> 0,
   log |-> <<>>, vals |-> <<>>, ret |-> NoRet, exc |-> NoExc]

\* a task begins awaiting ctr.stdout()
Await(tr, ctr) == [tr EXCEPT !.pc = "pull", !.ctr = ctr, !.ip = 1]

\* the awaited stdout() raised e inside task tr (exc keeps e, also when
\* the branch's except clause binds it)
OnRaise(tr, e) ==
  IF tr.fn = "test_version" /\ Catches(e)
  THEN [tr EXCEPT !.pc = "done", !.exc = e, !.ret = FailedResult(tr.version, e)]
  ELSE [tr EXCEPT !.pc = "raised", !.exc = e]

\* the awaited stdout() returned out inside task tr
OnValue(tr, out) ==
  CASE tr.fn = "test_version" ->
         [tr EXCEPT !.pc = "done", !.ret = PassedResult(tr.version, out)]
    [] tr.fn = "test_api_service" ->
         LET vals == Append(tr.vals, out)
             next == ProbeContainer(Len(vals) + 1, tr.version, vals)
         IN  IF Len(vals) < 4
             \* the layers of test_client are already built: only the new exec runs
             THEN [tr EXCEPT !.vals = vals, !.ctr = next, !.ip = Len(next.execs), !.pc = "exec"]
             ELSE [tr EXCEPT !.vals = vals, !.pc = "done", !.ret = ApiReport(vals)]
    [] OTHER -> [tr EXCEPT !.pc = "done", !.ret = out]

Ended(tr) == tr.pc \in {"done", "raised"}

Branches == DOMAIN task \ {0}

\* task t finishes a step as tr; what leaves task 0 leaves the invoked function
Settle(t, tr) ==
  /\ task' = [task EXCEPT ![t] = tr]
  /\ completed' = IF t > 0 /\ Ended(tr) THEN Append(completed, t) ELSE completed
  /\ IF t = 0 /\ tr.pc = "done"
       THEN mpc' = "returned" /\ output' = tr.ret /\ raised' = raised
     ELSE IF t = 0 /\ tr.pc = "raised"
       THEN mpc' = "raised" /\ raised' = tr.exc /\ output' = output
     ELSE UNCHANGED <<mpc, output, raised>>
  /\ UNCHANGED <<call, world, version_list, results, httpVars>>

----------------------------------------------------------------------------
(* Evaluation of an awaited container *)

\* from_(image): the image is resolved, or the query fails
Pull(t) ==
  /\ task[t].pc = "pull"
  /\ IF ImageResolves(world, task[t].ctr.image)
     THEN Settle(t, [task[t] EXCEPT !.pc = "exec"])
     ELSE Settle(t, OnRaise(task[t], [kind |-> "QueryError", what |-> "image", image |-> task[t].ctr.image]))

\* the next exec of the chain runs on the result of the previous one; a nonzero
\* exit of an exec expecting SUCCESS raises ExecError with the command, its
\* exit code and its output, and nothing after it runs
Exec(t) ==
  /\ task[t].pc = "exec"
  /\ LET tr == task[t]
         ex == tr.ctr.execs[tr.ip]
         r == RunCommand(world, ex)
         entry == [cmd |-> ex.cmd, binds |-> ex.binds, exit |-> r.exit, out |-> r.out,
                   host |-> r.host, connected |-> r.connected, status |-> r.status]
         ran == [tr EXCEPT !.log = Append(@, entry)]
     IN  IF \E b \in ex.binds : ~ServiceUp(world, b.svc)
         THEN Settle(t, OnRaise(tr, [kind |-> "QueryError", what |-> "service", image |-> tr.ctr.image]))
         ELSE IF r.exit # 0 /\ ex.expect = "SUCCESS"
         THEN Settle(t, OnRaise(ran, [kind |-> "ExecError", cmd |-> ex.cmd, exit |-> r.exit, out |-> r.out]))
         ELSE IF tr.ip = Len(tr.ctr.execs)
         THEN Settle(t, OnValue(ran, r.out))
         ELSE Settle(t, [ran EXCEPT !.ip = @ + 1])

----------------------------------------------------------------------------
(* The @function entry points *)

\* main.py:51-68
UnitTest ==
  /\ mpc = "invoked" /\ call.fn = "unit_test"
  /\ task' = [task EXCEPT ![0] = Await(@, UnitTestContainer(call.python_version))]
  /\ mpc' = "awaiting"
  /\ UNCHANGED <<call, world, version_list, completed, results, output, raised, httpVars>>

\* main.py:104-122
RunTest ==
  /\ mpc = "invoked" /\ call.fn = "run_test"
  /\ task' = [task EXCEPT ![0] = Await(@, RunTestContainer(call.path, call.python_version))]
  /\ mpc' = "awaiting"
  /\ UNCHANGED <<call, world, version_list, completed, results, output, raised, httpVars>>

\* main.py:155-190, up to the first await
TestApiService ==
  /\ mpc = "invoked" /\ call.fn = "test_api_service"
  /\ task' = [task EXCEPT ![0] = Await(@, ProbeContainer(1, call.python_version, <<>>))]
  /\ mpc' = "awaiting"
  /\ UNCHANGED <<call, world, version_list, completed, results, output, raised, httpVars>>

\* main.py:222-253
IntegrationTest ==
  /\ mpc = "invoked" /\ call.fn = "integration_test"
  /\ task' = [task EXCEPT ![0] = Await(@, IntegrationContainer(call.python_version))]
  /\ mpc' = "awaiting"
  /\ UNCHANGED <<call, world, version_list, completed, results, output, raised, httpVars>>

\* main.py:83-94, up to the await: the list is parsed, one coroutine is made
\* per entry, gather wraps each in a task, and the function suspends
UnitTestMatrix ==
  /\ mpc = "invoked" /\ call.fn = "unit_test_matrix"
  /\ LET vl == ParseVersions(call.versions)
     IN  /\ version_list' = vl
         /\ task' = [t \in 0..Len(vl) |->
                       IF t = 0 THEN task[0] ELSE NewTask("test_version", vl[t])]
  /\ mpc' = "gather"
  /\ UNCHANGED <<call, world, completed, results, output, raised, httpVars>>

\* main.py:85-91, up to the await: a branch is run by the event loop; the
\* attribute is looked up on self before anything is awaited
TestVersion(i) ==
  /\ i \in Branches
  /\ task[i].pc = "ready"
  /\ IF MatrixCallee \in ClassAttrs
     THEN Settle(i, Await(task[i], UnitTestContainer(task[i].version)))
     ELSE Settle(i, OnRaise(task[i], [kind |-> "AttributeError", name |-> MatrixCallee]))

\* gather's future is done when a branch raised, or when every branch returned
GatherFirstCompleted == \E i \in Branches : Ended(task[i])

GatherDone ==
  \/ \E i \in Branches : task[i].pc = "raised"
  \/ \A i \in Branches : task[i].pc = "done"

\* gather's result: one slot per awaitable, in the order they were passed
GatherInCompletionOrder == [k \in 1..Len(completed) |-> task[completed[k]].ret]

GatherResults == [i \in 1..Len(version_list) |-> task[i].ret]

FirstRaised ==
  LET k == CHOOSE k \in 1..Len(completed) :
             /\ task[completed[k]].pc = "raised"
             /\ \A j \in 1..(k - 1) : task[completed[j]].pc # "raised"
  IN  task[completed[k]].exc

\* main.py:94-101: the function resumes with gather's outcome
MatrixResume ==
  /\ mpc = "gather"
  /\ GatherDone
  /\ IF \E i \in Branches : task[i].pc = "raised"
     THEN /\ mpc' = "raised"
          /\ raised' = FirstRaised
          /\ UNCHANGED <<results, output>>
     ELSE /\ results' = GatherResults
          /\ output' = FormatMatrix(GatherResults)
          /\ mpc' = "returned"
          /\ raised' = raised
  /\ UNCHANGED <<call, world, version_list, task, completed, httpVars>>

----------------------------------------------------------------------------
(* hello_world.py served *)

Serve(method, path) ==
  /\ served < MaxReq
  /\ request' = [method |-> method, path |-> path]
  /\ response' = Handle(app, method, path)
  /\ served' = served + 1
  /\ UNCHANGED pipeVars

----------------------------------------------------------------------------
(* Specifications *)

Paths == {"tests/unit", "tests/e2e"}

StageCalls ==
  [fn : {"unit_test", "test_api_service", "integration_test"}, python_version : BaseVersions,
   path : {""}, versions : {<<>>}]
  \cup [fn : {"run_test"}, python_version : BaseVersions, path : Paths, versions : {<<>>}]

MatrixCalls ==
  [fn : {"unit_test_matrix"}, python_version : {<<>>}, path : {""},
   versions : StringsUpTo(MaxLen)]

Worlds ==
  [resolves : SUBSET BaseVersions, install : {0, 1}, unit : {0, 1}, apk : {0, 1},
   app : Apps, listens : BOOLEAN]

\* the matrix runs no service and no probe; what varies for it is which
\* images exist and whether the unit tests pass
MatrixWorlds ==
  {w \in Worlds : w.apk = 0 /\ w.app = "hello_world" /\ w.listens /\ w.install = 0}

NoRequest == [method |-> "", path |-> RootPath]
NoResponse == [status |-> 0, body |-> [text |-> ""], location |-> RootPath]

IdleHttp == request = NoRequest /\ response = NoResponse /\ served = 0

Init ==
  /\ \/ call \in StageCalls /\ world \in Worlds
     \/ call \in MatrixCalls /\ world \in MatrixWorlds
  /\ mpc = "invoked"
  /\ version_list = <<>>
  /\ task = [t \in {0} |-> NewTask(call.fn, call.python_version)]
  /\ completed = <<>>
  /\ results = <<>>
  /\ output = <<>>
  /\ raised = NoExc
  /\ IdleHttp

Next ==
  \/ UnitTest
  \/ RunTest
  \/ TestApiService
  \/ IntegrationTest
  \/ UnitTestMatrix
  \/ \E t \in DOMAIN task : Pull(t)
  \/ \E t \in DOMAIN task : Exec(t)
  \/ \E i \in DOMAIN task : TestVersion(i)
  \/ MatrixResume

Spec == Init /\ [][Next]_vars

InitHttp ==
  /\ call = [fn |-> "none", python_version |-> <<>>, path |-> "", versions |-> <<>>]
  /\ world = [resolves |-> {}, install |-> 0, unit |-> 0, apk |-> 0,
              app |-> "hello_world", listens |-> TRUE]
  /\ mpc = "idle"
  /\ version_list = <<>>
  /\ task = [t \in {0} |-> NewTask("none", <<>>)]
  /\ completed = <<>>
  /\ results = <<>>
  /\ output = <<>>
  /\ raised = NoExc
  /\ IdleHttp

NextHttp == \E method \in Methods, path \in RequestPaths : Serve(method, path)

SpecHttp == InitHttp /\ [][NextHttp]_vars

----------------------------------------------------------------------------
(* Properties *)

IsMatrix == call.fn = "unit_test_matrix"

Blocks(lines) == SelectSeq(lines, LAMBDA l : l.kind = "block")

\* C1: once unit_test_matrix has returned, its report holds exactly one
\* labelled block per entry of the version list, and the i-th block is the
\* one the i-th branch produced, labelled with the i-th version, whatever
\* the order in which the branches finished.
C1_ReportInInputOrder ==
  (IsMatrix /\ mpc = "returned") =>
    LET blocks == Blocks(output)
    IN  /\ Len(version_list) >= 1
        /\ Len(blocks) = Len(version_list)
        /\ \A i \in 1..Len(blocks) :
             /\ blocks[i].version = version_list[i]
             /\ blocks[i] = task[i].ret[2]
             /\ task[i].version = version_list[i]

\* a later branch finished before the first one, and their versions differ
C1_Witness ==
  /\ IsMatrix /\ mpc = "returned"
  /\ Len(version_list) >= 2
  /\ completed[1] # 1
  /\ version_list[completed[1]] # version_list[1]

\* C2: an exception raised inside a matrix branch never leaves the branch
\* nor unit_test_matrix: the branch ends normally, and in the returned
\* report its block is that version's FAILED block carrying the exception.
C2_BranchFailureContained ==
  IsMatrix =>
    /\ mpc # "raised" /\ raised = NoExc
    /\ \A i \in Branches : task[i].pc # "raised"
    /\ mpc = "returned" =>
         \A i \in Branches :
           task[i].exc # NoExc =>
             Blocks(output)[i] = [kind |-> "block", version |-> version_list[i],
                                  status |-> "FAILED", text |-> task[i].exc]

C2_Witness ==
  /\ IsMatrix /\ mpc = "returned"
  /\ \E i \in Branches : task[i].exc # NoExc /\ Blocks(output)[i].status = "FAILED"

\* C3: in a returned matrix report, the block of every version whose unit
\* test execution passes (image resolves, install and pytest exit 0) is PASSED.
C3_PassedWhenUnitTestPasses ==
  (IsMatrix /\ mpc = "returned") =>
    \A i \in 1..Len(version_list) :
      LET ctr == UnitTestContainer(version_list[i])
          passes == /\ ImageResolves(world, ctr.image)
                    /\ \A k \in 1..Len(ctr.execs) : RunCommand(world, ctr.execs[k]).exit = 0
      IN  passes => Blocks(output)[i].status = "PASSED"

\* C4: when unit_test_matrix suspends, every branch exists; a branch that has
\* not ended can always take its next step, whatever its siblings did; and
\* the call has not ended while a branch has not.
C4_AllLaunchedAllJoined ==
  IsMatrix =>
    /\ mpc # "invoked" =>
         /\ DOMAIN task = 0..Len(version_list)
         /\ Len(version_list) = Len(Split(call.versions))
    /\ \A i \in Branches :
         ~Ended(task[i]) => ENABLED (TestVersion(i) \/ Pull(i) \/ Exec(i))
    /\ mpc \in {"returned", "raised"} => \A i \in Branches : Ended(task[i])

\* the call returned although a sibling had failed before another branch started
C4_Witness ==
  /\ IsMatrix /\ mpc = "returned"
  /\ Len(version_list) >= 3
  /\ \A i \in Branches : Ended(task[i])
  /\ task[completed[1]].exc # NoExc

\* C5: an empty entry of the versions argument is rejected: no branch is
\* launched for the version "".
C5_EmptyEntryRejected ==
  IsMatrix => \A i \in Branches : task[i].version # <<>>

\* C6: test_api_service returns its report (with the success footer) only
\* when every probe request connected and was answered 2xx.
C6_FooterOnlyAfterAllProbesSucceeded ==
  (call.fn = "test_api_service" /\ mpc = "returned") =>
    \A k \in 1..Len(task[0].log) :
      task[0].log[k].cmd.tool = "curl -s" =>
        /\ task[0].log[k].connected
        /\ task[0].log[k].status \in 200..299

StageFns == {"unit_test", "run_test", "integration_test"}

\* C7: the commands of a test stage run in the order of the chain; a command
\* that exits nonzero is the last one run, the stage returns nothing, and the
\* exception that leaves it is that command's ExecError with its exit code
\* and output; the stage returns the last command's stdout only after every
\* command exited 0.
C7_SequenceAbortsOnFailure ==
  call.fn \in StageFns =>
    LET tr == task[0]
        n == Len(tr.log)
    IN  /\ n <= Len(tr.ctr.execs)
        /\ \A i \in 1..n :
             /\ tr.log[i].cmd = tr.ctr.execs[i].cmd
             /\ tr.log[i].exit # 0 =>
                  /\ i = n
                  /\ mpc = "raised" /\ output = <<>>
                  /\ raised = [kind |-> "ExecError", cmd |-> tr.log[i].cmd,
                               exit |-> tr.log[i].exit, out |-> tr.log[i].out]
        /\ mpc = "returned" =>
             /\ n = Len(tr.ctr.execs)
             /\ \A i \in 1..n : tr.log[i].exit = 0
             /\ output = tr.log[n].out

\* the second of two commands failed: pytest after a successful install
C7_Witness ==
  /\ call.fn = "unit_test" /\ mpc = "raised"
  /\ Len(task[0].log) = 2
  /\ task[0].log[1].exit = 0
  /\ task[0].log[2].cmd.tool = "pytest" /\ task[0].log[2].exit # 0

\* C8: every command that addressed the host "api", and every command that
\* connected to a service, ran in an environment holding the binding of the
\* alias "api" to the service this call created; a command run without a
\* binding connected to nothing.
C8_ServiceOnlyThroughBinding ==
  \A t \in DOMAIN task :
    \A k \in 1..Len(task[t].log) :
      LET e == task[t].log[k]
          bound == [alias |-> "api", svc |-> api_service(call.python_version)] \in e.binds
      IN  /\ e.host = "api" => bound
          /\ e.connected => bound /\ e.host = "api"
          /\ e.binds = {} => ~e.connected

\* a probe addressed http://api:8000 and reached the service through the binding
C8_Witness ==
  /\ call.fn = "test_api_service"
  /\ \E k \in 1..Len(task[0].log) :
       task[0].log[k].cmd.tool = "curl -s" /\ task[0].log[k].connected

RequestAnswered == served > 0

\* C10 as stated: GET / and GET /health answer 200 with their exact bodies,
\* every other path answers 404, a non-GET request on / answers 405.
C10_AnyOtherPath404 ==
  RequestAnswered =>
    LET m == request.method
        p == request.path
    IN  /\ (m = "GET" /\ p = RootPath) =>
             response.status = 200 /\ response.body = [message |-> "Hello, World!"]
        /\ (m = "GET" /\ p = HealthPath) =>
             /\ response.status = 200
             /\ response.body = [status |-> "healthy", service |-> "hello-world"]
        /\ p \notin {RootPath, HealthPath} => response.status = 404
        /\ (m # "GET" /\ p = RootPath) => response.status = 405

\* paths the application routes besides / and /health: the framework's
\* documentation routes, and any of the routes with a trailing slash added
RoutedSegs ==
  {<<>>, <<"health">>, <<"openapi.json">>, <<"docs">>, <<"docs", "oauth2-redirect">>, <<"redoc">>}

\* C10, amended: as stated, with "every other path" read as every path that
\* is none of /, /health, /openapi.json, /docs, /docs/oauth2-redirect, /redoc,
\* with or without a trailing slash.
C10_UnroutedPath404 ==
  RequestAnswered =>
    LET m == request.method
        p == request.path
    IN  /\ (m = "GET" /\ p = RootPath) =>
             response.status = 200 /\ response.body = [message |-> "Hello, World!"]
        /\ (m = "GET" /\ p = HealthPath) =>
             /\ response.status = 200
             /\ response.body = [status |-> "healthy", service |-> "hello-world"]
        /\ p.segs \notin RoutedSegs => response.status = 404
        /\ (m # "GET" /\ p = RootPath) => response.status = 405

C10_Witness ==
  /\ served = MaxReq
  /\ request = [method |-> "HEAD", path |-> RootPath]
  /\ response.status = 405

====
